---------------------------- MODULE Spec2Model ----------------------------
(***************************************************************************)
(* GS1 barcode decoding engine (utils/gs1Parser): validateGTIN,            *)
(* parseGS1Date, deriveNDC, parseBarcode and processAI.                    *)
(*                                                                         *)
(* A JavaScript string is a sequence of one-character strings.  A          *)
(* JavaScript number is a record [nan, v]; an optional field is <<>>       *)
(* (undefined) or <<x>>.  A Date is the number of its local calendar day   *)
(* (days since 1970-01-01) plus the milliseconds into that day; local time *)
(* is taken to have a fixed offset (no daylight-saving shifts).            *)
(***************************************************************************)
EXTENDS Integers, Sequences, FiniteSets, TLC

VARIABLES
  pc,         \* where the call is: idle, linear, bracket, raw, final, done, threw;
              \* validated, dated, derived after a direct call of a helper
  input,      \* the argument of the call
  now,        \* the clock when the call was entered
  rawData,    \* the local rawData
  stream,     \* the local stream
  lastIndex,  \* bracketRegex.lastIndex
  elements,   \* result.elements while the tokenizer runs
  warnings,   \* the local warnings
  result,     \* the object returned (read when pc = "done")
  path,       \* the branch taken: none, linear, bracket, raw
  iters,      \* tokenizer iterations run in this call
  calls,      \* calls of parseBarcode entered so far
  aiRules,    \* the module-level AI_RULES object
  history,    \* the scanner page's scan history, newest first
  currentScan \* the scanner page's displayed result, Null before any scan

vars == <<pc, input, now, rawData, stream, lastIndex, elements, warnings,
          result, path, iters, calls, aiRules, history, currentScan>>

-----------------------------------------------------------------------------
(* Strings *)

DigitChar == <<"0", "1", "2", "3", "4", "5", "6", "7", "8", "9">>

Digits == {DigitChar[i] : i \in 1..10}

IsDigit(c) == c \in Digits

DigitVal(c) == (CHOOSE i \in 1..10 : DigitChar[i] = c) - 1

AllDigits(s) == \A i \in 1..Len(s) : IsDigit(s[i])

\* A digit string written as a tuple of numbers.
Ds(t) == [i \in 1..Len(t) |-> DigitChar[t[i] + 1]]

\* The group separator, String.fromCharCode(29), as one character token.
GS == "<GS>"

WhiteSpace == {" ", "\t", "\n", "\r"}

Min(a, b) == IF a < b THEN a ELSE b

Max(a, b) == IF a > b THEN a ELSE b

\* String.prototype.substring(a, b): both clamped to 0..length, swapped if a > b.
Substring(s, a, b) ==
  LET ca == Max(0, Min(a, Len(s)))
      cb == Max(0, Min(b, Len(s)))
  IN  SubSeq(s, Min(ca, cb) + 1, Max(ca, cb))

\* String.prototype.substring(a)
SubstringFrom(s, a) == Substring(s, a, Len(s))

StartsWith(s, p) == Len(s) >= Len(p) /\ SubSeq(s, 1, Len(p)) = p

Includes(s, c) == \E i \in 1..Len(s) : s[i] = c

\* String.prototype.trim
Trim(s) ==
  IF \A i \in 1..Len(s) : s[i] \in WhiteSpace THEN <<>>
  ELSE LET a == CHOOSE i \in 1..Len(s) :
                  s[i] \notin WhiteSpace /\ \A j \in 1..(i - 1) : s[j] \in WhiteSpace
           b == CHOOSE i \in 1..Len(s) :
                  s[i] \notin WhiteSpace /\ \A j \in (i + 1)..Len(s) : s[j] \in WhiteSpace
       IN  SubSeq(s, a, b)

\* String.prototype.padStart(n, '0')
PadStart(s, n) == [i \in 1..Max(0, n - Len(s)) |-> "0"] \o s

-----------------------------------------------------------------------------
(* Numbers *)

Num(n) == [nan |-> FALSE, v |-> n]

NaN == [nan |-> TRUE, v |-> 0]

RECURSIVE NatToStr(_)
NatToStr(n) ==
  IF n < 10 THEN <<DigitChar[n + 1]>>
  ELSE NatToStr(n \div 10) \o <<DigitChar[(n % 10) + 1]>>

\* String(x) of a number.
NumToStr(x) ==
  IF x.nan THEN <<"N", "a", "N">>
  ELSE IF x.v < 0 THEN <<"-">> \o NatToStr(0 - x.v)
  ELSE NatToStr(x.v)

RECURSIVE DigitsToNat(_)
DigitsToNat(s) ==
  IF s = <<>> THEN 0
  ELSE 10 * DigitsToNat(SubSeq(s, 1, Len(s) - 1)) + DigitVal(s[Len(s)])

\* The longest run of characters of the set cs at the start of s.
RunOf(s, cs) ==
  LET n == CHOOSE k \in 0..Len(s) :
             /\ \A i \in 1..k : s[i] \in cs
             /\ (k < Len(s) => s[k + 1] \notin cs)
  IN  SubSeq(s, 1, n)

HexLower == <<"a", "b", "c", "d", "e", "f">>

HexUpper == <<"A", "B", "C", "D", "E", "F">>

HexChars == Digits \cup {HexLower[i] : i \in 1..6} \cup {HexUpper[i] : i \in 1..6}

HexVal(c) ==
  IF IsDigit(c) THEN DigitVal(c)
  ELSE 9 + (CHOOSE i \in 1..6 : HexLower[i] = c \/ HexUpper[i] = c)

RECURSIVE HexToNat(_)
HexToNat(s) ==
  IF s = <<>> THEN 0
  ELSE 16 * HexToNat(SubSeq(s, 1, Len(s) - 1)) + HexVal(s[Len(s)])

Negate(x) == IF x.nan THEN NaN ELSE Num(0 - x.v)

\* The value of the digits read, NaN when none was read.
DecimalValue(run) == IF run = <<>> THEN NaN ELSE Num(DigitsToNat(run))

HexValue(run) == IF run = <<>> THEN NaN ELSE Num(HexToNat(run))

\* The digits after the sign: hexadecimal after "0x"/"0X", decimal otherwise,
\* read up to the first character that is no digit.
ParseMagnitude(u) ==
  IF Len(u) >= 2 /\ u[1] = "0" /\ u[2] \in {"x", "X"}
  THEN HexValue(RunOf(SubstringFrom(u, 2), HexChars))
  ELSE DecimalValue(RunOf(u, Digits))

ParseSigned(t) ==
  IF t # <<>> /\ t[1] = "-" THEN Negate(ParseMagnitude(SubstringFrom(t, 1)))
  ELSE IF t # <<>> /\ t[1] = "+" THEN ParseMagnitude(SubstringFrom(t, 1))
  ELSE ParseMagnitude(t)

\* parseInt(s) with no radix: leading white space skipped, an optional sign,
\* then the digits; NaN when no digit is read.  (-0 is written 0: it equals
\* 0 under === and prints as "0".)
ParseInt(s) == ParseSigned(SubstringFrom(s, Len(RunOf(s, WhiteSpace))))

-----------------------------------------------------------------------------
(* Calendar: what the Date constructor, getDate and setHours compute *)

MsPerDay == 86400000

\* 23:59:59.999 as milliseconds into the day, the argument of setHours.
EndOfDayMs == MsPerDay - 1

IsLeap(y) == (y % 4 = 0 /\ y % 100 # 0) \/ y % 400 = 0

DaysInMonth(y, m) ==
  IF m = 2 THEN (IF IsLeap(y) THEN 29 ELSE 28)
  ELSE IF m \in {4, 6, 9, 11} THEN 30 ELSE 31

\* Leap days in the years 1..y.
LeapsThrough(y) == (y \div 4) - (y \div 100) + (y \div 400)

\* Days from 1970-01-01 to the first of January of year y.
DaysToYear(y) == 365 * (y - 1970) + LeapsThrough(y - 1) - LeapsThrough(1969)

RECURSIVE DaysBeforeMonth(_, _)
DaysBeforeMonth(y, m) ==
  IF m = 1 THEN 0 ELSE DaysBeforeMonth(y, m - 1) + DaysInMonth(y, m - 1)

\* new Date(year, monthIndex, day) for numbers: the month index and the day
\* roll over into neighbouring months and years.  The result is the day
\* number together with the normalised year and month (1..12).
MakeDay(year, monthIndex, day) ==
  LET y == year + (monthIndex \div 12)
      m == (monthIndex % 12) + 1
  IN  DaysToYear(y) + DaysBeforeMonth(y, m) + day - 1

\* new Date(year, monthIndex, 0).getDate(): the last day of the month before.
LastDayOfPrevMonth(year, monthIndex) ==
  LET y == year + ((monthIndex - 1) \div 12)
      m == ((monthIndex - 1) % 12) + 1
  IN  DaysInMonth(y, m)

\* An instant: [day, ms], ms in 0..MsPerDay-1.
Instant(d, ms) == [day |-> d, ms |-> ms]

\* a < b on instants
Before(a, b) == a.day < b.day \/ (a.day = b.day /\ a.ms < b.ms)

\* Math.ceil((a.getTime() - b.getTime()) / (1000 * 3600 * 24))
CeilDaysBetween(a, b) ==
  LET whole == a.day - b.day
      part  == a.ms - b.ms
  IN  IF part > 0 THEN whole + 1 ELSE whole

-----------------------------------------------------------------------------
(* validateGTIN *)

\* The weighted sum with weights 2 and 1 in place of 3 and 1.
WeightedSumEvenWeight(digits) ==
  LET n == Len(digits)
      RECURSIVE Sum(_)
      Sum(i) == IF i > n THEN 0
                ELSE digits[n + 1 - i] * (IF (i - 1) % 2 = 0 THEN 2 ELSE 1) + Sum(i + 1)
  IN  Sum(1)

\* digits.reverse().reduce(...): index 0 is the last payload digit, weight 3.
WeightedSum(digits) ==
  LET n == Len(digits)
      RECURSIVE Sum(_)
      Sum(i) == IF i > n THEN 0
                ELSE digits[n + 1 - i] * (IF (i - 1) % 2 = 0 THEN 3 ELSE 1) + Sum(i + 1)
  IN  Sum(1)

\* The next multiple of ten above sum, also when sum is one already.
NearestTenAbove(sum) == (sum \div 10 + 1) * 10

\* Math.ceil(sum / 10) * 10
NearestTen(sum) == ((sum + 9) \div 10) * 10

validateGTIN(gtin) ==
  IF gtin = <<>> \/ Len(gtin) # 14 \/ ~AllDigits(gtin) THEN FALSE
  ELSE LET digits     == [i \in 1..13 |-> DigitVal(gtin[i])]
           checkDigit == DigitVal(gtin[14])
           sum        == WeightedSum(digits)
       IN  checkDigit = NearestTen(sum) - sum

-----------------------------------------------------------------------------
(* parseGS1Date *)

Null == <<>>

\* String(n).padStart(2, '0')
Pad2(x) == PadStart(NumToStr(x), 2)

NumAdd(x, k) == IF x.nan THEN NaN ELSE Num(x.v + k)

\* The pivot with yy >= 70 in place of yy > 70.
FullYearPivotAt70(yy) == IF ~yy.nan /\ yy.v >= 70 THEN NumAdd(yy, 1900) ELSE NumAdd(yy, 2000)

\* yy > 70 ? 1900 + yy : 2000 + yy
FullYear(yy) == IF ~yy.nan /\ yy.v > 70 THEN NumAdd(yy, 1900) ELSE NumAdd(yy, 2000)

\* Day 00 resolved with new Date(2000 + yy, mm - 1, 0): the month before.
DayOfMonthPrevMonth(yy, mm, dd) ==
  IF ~dd.nan /\ dd.v = 0
  THEN (IF yy.nan \/ mm.nan THEN NaN ELSE Num(LastDayOfPrevMonth(2000 + yy.v, mm.v - 1)))
  ELSE dd

\* dd === 0 ? new Date(2000 + yy, mm, 0).getDate() : dd
DayOfMonth(yy, mm, dd) ==
  IF ~dd.nan /\ dd.v = 0
  THEN (IF yy.nan \/ mm.nan THEN NaN ELSE Num(LastDayOfPrevMonth(2000 + yy.v, mm.v)))
  ELSE dd

\* new Date(fullYear, mm - 1, day) followed by setHours(23, 59, 59, 999), as
\* [valid, day]: the local calendar day of the Date; an Invalid Date (a NaN
\* argument) has valid = FALSE.  fullYear is never in 0..99 here, the range
\* the constructor maps to 1900..1999.
NewDate(fullYear, mm, day) ==
  IF fullYear.nan \/ mm.nan \/ day.nan THEN [valid |-> FALSE, day |-> 0]
  ELSE [valid |-> TRUE, day |-> MakeDay(fullYear.v, mm.v - 1, day.v)]

IsoString(fullYear, mm, day) ==
  NumToStr(fullYear) \o <<"-">> \o Pad2(mm) \o <<"-">> \o Pad2(day)

\* The comparison without setHours(23, 59, 59, 999): from the start of the day.
DateResultAtMidnight(iso, dateObj, today) ==
  [iso |-> iso, dateObj |-> dateObj,
   isExpired |-> dateObj.valid /\ Before(Instant(dateObj.day, 0), today)]

\* dateObj < today: false for an Invalid Date.
DateResult(iso, dateObj, today) ==
  [iso |-> iso, dateObj |-> dateObj,
   isExpired |-> dateObj.valid /\ Before(Instant(dateObj.day, EndOfDayMs), today)]

DateOfParts(fullYear, mm, day, today) ==
  DateResult(IsoString(fullYear, mm, day), NewDate(fullYear, mm, day), today)

DateOfFields(yy, mm, dd, today) ==
  DateOfParts(FullYear(yy), mm, DayOfMonth(yy, mm, dd), today)

\* The record parseGS1Date returns, as <<record>>, or Null.
parseGS1Date(yymmdd, today) ==
  IF yymmdd = <<>> \/ Len(yymmdd) < 6 THEN Null
  ELSE << DateOfFields(ParseInt(Substring(yymmdd, 0, 2)),
                       ParseInt(Substring(yymmdd, 2, 4)),
                       ParseInt(Substring(yymmdd, 4, 6)), today) >>

-----------------------------------------------------------------------------
(* deriveNDC *)

Undefined == <<>>

Some(x) == <<x>>

\* The heuristic with the core taken one character later, check digit included.
deriveNDCWithCheckDigit(gtin) ==
  IF gtin = <<>> THEN Undefined
  ELSE LET core == Substring(gtin, 3, 14)
       IN  IF Len(core) = 11
           THEN Some(Substring(core, 0, 5) \o <<"-">> \o Substring(core, 5, 9)
                     \o <<"-">> \o SubstringFrom(core, 9))
           ELSE Undefined

deriveNDC(gtin) ==
  IF gtin = <<>> THEN Undefined
  ELSE LET core == Substring(gtin, 2, 13)
       IN  IF Len(core) = 11
           THEN Some(Substring(core, 0, 5) \o <<"-">> \o Substring(core, 5, 9)
                     \o <<"-">> \o SubstringFrom(core, 9))
           ELSE Undefined

-----------------------------------------------------------------------------
(* AI_RULES *)

Rule(ai, label, fixedLength, maxLength, type) ==
  [ai |-> Ds(ai), label |-> label, fixedLength |-> fixedLength,
   maxLength |-> maxLength, type |-> type]

\* The dictionary literal, in source order; a length that is not declared
\* is undefined, which the tokenizer tests for truthiness: written 0 here.
AIRows ==
  << Rule(<<0, 0>>, "SSCC", 18, 0, "string"),
     Rule(<<0, 1>>, "GTIN", 14, 0, "string"),
     Rule(<<0, 2>>, "GTIN of Content", 14, 0, "string"),
     Rule(<<1, 0>>, "Batch/Lot", 0, 20, "string"),
     Rule(<<1, 1>>, "Prod. Date", 6, 0, "date"),
     Rule(<<1, 2>>, "Due Date", 6, 0, "date"),
     Rule(<<1, 3>>, "Pack Date", 6, 0, "date"),
     Rule(<<1, 5>>, "Best Before", 6, 0, "date"),
     Rule(<<1, 7>>, "Expiration", 6, 0, "date"),
     Rule(<<2, 0>>, "Variant", 2, 0, "string"),
     Rule(<<2, 1>>, "Serial No", 0, 20, "string"),
     Rule(<<3, 0>>, "Count", 0, 8, "number"),
     Rule(<<3, 7>>, "Count", 0, 8, "number"),
     Rule(<<2, 4, 0>>, "Addl. Prod ID", 0, 30, "string"),
     Rule(<<2, 4, 1>>, "Cust. Part No", 0, 30, "string"),
     Rule(<<2, 5, 0>>, "Secondary Serial", 0, 30, "string"),
     Rule(<<4, 0, 0>>, "Customer PO", 0, 30, "string"),
     Rule(<<4, 1, 0>>, "Ship to GLN", 13, 0, "string"),
     Rule(<<4, 2, 0>>, "Ship to Post", 0, 20, "string"),
     Rule(<<7, 0, 0, 3>>, "Expiry Time", 10, 0, "date"),
     Rule(<<8, 0, 0, 3>>, "GRAI", 0, 30, "string"),
     Rule(<<7, 0, 3>>, "Proc. Date", 10, 0, "date") >>

AIKeySet == {AIRows[i].ai : i \in 1..Len(AIRows)}

AI_RULES == [k \in AIKeySet |-> AIRows[CHOOSE i \in 1..Len(AIRows) : AIRows[i].ai = k]]

AI01 == Ds(<<0, 1>>)

AI10 == Ds(<<1, 0>>)

AI17 == Ds(<<1, 7>>)

AI21 == Ds(<<2, 1>>)

\* Object.keys(AI_RULES): the keys that are canonical array indices (no
\* leading zero) in ascending numeric order, then the others in insertion
\* order.
ObjectKeys ==
  LET ins     == [i \in 1..Len(AIRows) |-> AIRows[i].ai]
      IsIndex(k) == k[1] # "0" \/ k = <<"0">>
      idx     == {k \in AIKeySet : IsIndex(k)}
      RECURSIVE Asc(_)
      Asc(S)  == IF S = {} THEN <<>>
                 ELSE LET m == CHOOSE k \in S :
                                 \A o \in S : DigitsToNat(k) <= DigitsToNat(o)
                      IN  <<m>> \o Asc(S \ {m})
  IN  Asc(idx) \o SelectSeq(ins, LAMBDA k : ~IsIndex(k))

\* keys.sort((a, b) => b.length - a.length): stable, longest first.
SortByLengthDesc(keys) ==
  LET maxLen == CHOOSE n \in 0..Len(keys) + 4 :
                  /\ \A i \in 1..Len(keys) : Len(keys[i]) <= n
                  /\ (\E i \in 1..Len(keys) : Len(keys[i]) = n) \/ n = 0
      RECURSIVE From(_)
      From(n) == IF n = 0 THEN <<>>
                 ELSE SelectSeq(keys, LAMBDA k : Len(k) = n) \o From(n - 1)
  IN  From(maxLen)

aiKeys == SortByLengthDesc(ObjectKeys)

-----------------------------------------------------------------------------
(* Warnings: a message is the tuple of its literal and interpolated parts *)

WarnGTIN == <<"Invalid GTIN Check Digit">>

WarnDate(ai) == <<"Invalid Date for AI (", ai, ")">>

WarnUnparsed(s) == <<"Unparsed data segment: ", Substring(s, 0, 10), "...">>

-----------------------------------------------------------------------------
(* processAI *)

\* StoreElement, with no warning pushed for a GTIN that fails its checksum.
StoreElementUnwarned(rule, ai, value, gtinOk, d, els, warns) ==
  [threw |-> FALSE,
   elements |-> (ai :> [ai |-> ai, label |-> rule.label,
                        value |-> IF rule.type = "date" /\ d # Null THEN d[1].iso ELSE value,
                        rawValue |-> value,
                        isValid |-> gtinOk /\ ~(rule.type = "date" /\ d = Null)]) @@ els,
   warnings |-> warns \o (IF rule.type = "date" /\ d = Null THEN <<WarnDate(ai)>> ELSE <<>>)]

\* StoreElement, with a date kept as the digits that were read.
StoreElementRawDate(rule, ai, value, gtinOk, d, els, warns) ==
  [threw |-> FALSE,
   elements |-> (ai :> [ai |-> ai, label |-> rule.label,
                        value |-> value,
                        rawValue |-> value,
                        isValid |-> gtinOk /\ ~(rule.type = "date" /\ d = Null)]) @@ els,
   warnings |-> (IF gtinOk THEN warns ELSE Append(warns, WarnGTIN))
                  \o (IF rule.type = "date" /\ d = Null THEN <<WarnDate(ai)>> ELSE <<>>)]

\* StoreElement, with a GTIN that fails its checksum warned about but not stored.
StoreElementDroppingInvalid(rule, ai, value, gtinOk, d, els, warns) ==
  IF ~gtinOk
  THEN [threw |-> FALSE, elements |-> els, warnings |-> Append(warns, WarnGTIN)]
  ELSE [threw |-> FALSE,
        elements |-> (ai :> [ai |-> ai, label |-> rule.label,
                             value |-> IF rule.type = "date" /\ d # Null
                                       THEN d[1].iso ELSE value,
                             rawValue |-> value,
                             isValid |-> ~(rule.type = "date" /\ d = Null)]) @@ els,
        warnings |-> warns \o (IF rule.type = "date" /\ d = Null
                               THEN <<WarnDate(ai)>> ELSE <<>>)]

\* result.elements[ai] = {...} and the warnings pushed before it, given the
\* checksum verdict and the date parsed for a date-typed AI (Null otherwise).
StoreElement(rule, ai, value, gtinOk, d, els, warns) ==
  [threw |-> FALSE,
   elements |-> (ai :> [ai |-> ai, label |-> rule.label,
                        value |-> IF rule.type = "date" /\ d # Null THEN d[1].iso ELSE value,
                        rawValue |-> value,
                        isValid |-> gtinOk /\ ~(rule.type = "date" /\ d = Null)]) @@ els,
   warnings |-> (IF gtinOk THEN warns ELSE Append(warns, WarnGTIN))
                  \o (IF rule.type = "date" /\ d = Null THEN <<WarnDate(ai)>> ELSE <<>>)]

\* The effect of processAI(ai, value, result, warnings) on result.elements
\* and warnings.  An ai that is no key of AI_RULES leaves rule undefined,
\* and reading rule.type throws a TypeError: threw = TRUE.
processAI(ai, value, els, warns, today) ==
  IF ai \notin DOMAIN AI_RULES
  THEN [threw |-> TRUE, elements |-> els, warnings |-> warns]
  ELSE StoreElement(AI_RULES[ai], ai, value,
                    IF ai = AI01 THEN validateGTIN(value) ELSE TRUE,
                    IF AI_RULES[ai].type = "date" THEN parseGS1Date(value, today) ELSE Null,
                    els, warns)

-----------------------------------------------------------------------------
(* parseBarcode, piece by piece *)

PrefixD2 == <<"]", "d", "2">>

PrefixC1 == <<"]", "C", "1">>

\* input.trim(), then one symbology identifier removed.
Normalize(inp) ==
  LET t == Trim(inp)
  IN  IF StartsWith(t, PrefixD2) THEN SubstringFrom(t, 3)
      ELSE IF StartsWith(t, PrefixC1) THEN SubstringFrom(t, 3)
      ELSE t

NoElements == [k \in {} |-> 0]

\* The result object as constructed before any parsing.
InitialResult(inp) ==
  [success |-> FALSE, type |-> "UNKNOWN", elements |-> NoElements,
   gtin |-> Undefined, expiryDate |-> Undefined, batchNumber |-> Undefined,
   serialNumber |-> Undefined, ndc |-> Undefined, isExpired |-> FALSE,
   daysToExpiry |-> Undefined, warnings |-> <<>>, rawData |-> inp]

\* /^\d{12,13}$/.test(rawData)
IsLinearCandidate(raw) == Len(raw) \in {12, 13} /\ AllDigits(raw)

\* LinearResult, with the two types the wrong way round.
LinearResultSwapped(raw, inp) ==
  LET padded == PadStart(raw, 14)
  IN  IF IsLinearCandidate(raw) /\ validateGTIN(padded)
      THEN << [InitialResult(inp) EXCEPT
                 !.type     = IF Len(raw) = 13 THEN "UPC-A" ELSE "EAN-13",
                 !.gtin     = Some(padded),
                 !.success  = TRUE,
                 !.elements = (AI01 :> [ai |-> AI01, label |-> "GTIN", value |-> padded,
                                        rawValue |-> raw, isValid |-> TRUE])] >>
      ELSE Null

\* LinearResult, with the checksum of the padded digits not looked at.
LinearResultUnchecked(raw, inp) ==
  LET padded == PadStart(raw, 14)
  IN  IF IsLinearCandidate(raw)
      THEN << [InitialResult(inp) EXCEPT
                 !.type     = IF Len(raw) = 13 THEN "EAN-13" ELSE "UPC-A",
                 !.gtin     = Some(padded),
                 !.success  = TRUE,
                 !.elements = (AI01 :> [ai |-> AI01, label |-> "GTIN", value |-> padded,
                                        rawValue |-> raw, isValid |-> TRUE])] >>
      ELSE Null

\* Step 2: <<result>> when the EAN/UPC branch returns, Null when it falls through.
LinearResult(raw, inp) ==
  LET padded == PadStart(raw, 14)
  IN  IF IsLinearCandidate(raw) /\ validateGTIN(padded)
      THEN << [InitialResult(inp) EXCEPT
                 !.type     = IF Len(raw) = 13 THEN "EAN-13" ELSE "UPC-A",
                 !.gtin     = Some(padded),
                 !.success  = TRUE,
                 !.elements = (AI01 :> [ai |-> AI01, label |-> "GTIN", value |-> padded,
                                        rawValue |-> raw, isValid |-> TRUE])] >>
      ELSE Null

\* stream.includes('(') && stream.includes(')')
IsBracketed(s) == Includes(s, "(") /\ Includes(s, ")")

\* The longest run of characters other than "(" at the start of s: [^(]+
NonParenRun(s) ==
  LET n == CHOOSE k \in 0..Len(s) :
             /\ \A i \in 1..k : s[i] # "("
             /\ (k < Len(s) => s[k + 1] = "(")
  IN  SubSeq(s, 1, n)

\* BracketMatchAt, with a lazy value group ([^(]+?): one character only.
BracketMatchAtLazy(s, p) ==
  LET ai   == RunOf(SubstringFrom(s, p + 1), Digits)
      q    == p + 1 + Len(ai)
      val  == Substring(NonParenRun(SubstringFrom(s, q + 1)), 0, 1)
      ok   == /\ p < Len(s) /\ s[p + 1] = "("
              /\ ai # <<>>
              /\ q < Len(s) /\ s[q + 1] = ")"
              /\ val # <<>>
  IN  [found |-> ok, ai |-> ai, value |-> val, lastIndex |-> q + 1 + Len(val)]

\* A match of \((\d+)\)([^(]+) starting at the 0-based position p.
BracketMatchAt(s, p) ==
  LET ai   == RunOf(SubstringFrom(s, p + 1), Digits)
      q    == p + 1 + Len(ai)
      val  == NonParenRun(SubstringFrom(s, q + 1))
      ok   == /\ p < Len(s) /\ s[p + 1] = "("
              /\ ai # <<>>
              /\ q < Len(s) /\ s[q + 1] = ")"
              /\ val # <<>>
  IN  [found |-> ok, ai |-> ai, value |-> val, lastIndex |-> q + 1 + Len(val)]

\* bracketRegex.exec(stream) with the regex's lastIndex at li: the leftmost
\* match at or after li, or found = FALSE (exec returned null).
BracketExec(s, li) ==
  IF \E p \in li..Len(s) : BracketMatchAt(s, p).found
  THEN BracketMatchAt(s, CHOOSE p \in li..Len(s) :
                           /\ BracketMatchAt(s, p).found
                           /\ \A r \in li..(p - 1) : ~BracketMatchAt(s, r).found)
  ELSE [found |-> FALSE, ai |-> <<>>, value |-> <<>>, lastIndex |-> 0]

\* rawVal.split(GS)[0] and rawVal.split(GS).slice(1).join(GS)
BeforeGS(s) ==
  IF Includes(s, GS)
  THEN SubSeq(s, 1, (CHOOSE i \in 1..Len(s) : s[i] = GS /\ \A j \in 1..(i - 1) : s[j] # GS) - 1)
  ELSE s

\* parts.slice(1).join(''): the later separators are lost.
AfterGSJoinedBare(s) ==
  SelectSeq(SubstringFrom(s, CHOOSE i \in 1..Len(s) : s[i] = GS /\ \A j \in 1..(i - 1) : s[j] # GS),
            LAMBDA c : c # GS)

AfterGS(s) ==
  SubstringFrom(s, CHOOSE i \in 1..Len(s) : s[i] = GS /\ \A j \in 1..(i - 1) : s[j] # GS)

\* The AI looked up from the first two characters of the stream alone.
MatchingAITwoChars(s) ==
  IF Substring(s, 0, 2) \in AIKeySet THEN Substring(s, 0, 2) ELSE <<>>

\* The AI the for-loop over aiKeys stops at: the first key, in aiKeys order,
\* that the stream starts with; <<>> when there is none.
MatchingAI(s) ==
  IF \E i \in 1..Len(aiKeys) : StartsWith(s, aiKeys[i])
  THEN aiKeys[CHOOSE i \in 1..Len(aiKeys) :
                /\ StartsWith(s, aiKeys[i])
                /\ \A j \in 1..(i - 1) : ~StartsWith(s, aiKeys[j])]
  ELSE <<>>

\* The extraction with the stream resumed one character late after a
\* fixed-length field.
ExtractSkippingOne(s, ai) ==
  LET rule   == AI_RULES[ai]
      rawVal == SubstringFrom(s, Len(ai))
  IN  IF rule.fixedLength # 0
      THEN IF Len(s) >= Len(ai) + rule.fixedLength
           THEN [value |-> Substring(s, Len(ai), Len(ai) + rule.fixedLength),
                 nextStream |-> SubstringFrom(s, Len(ai) + rule.fixedLength + 1)]
           ELSE [value |-> <<>>, nextStream |-> <<>>]
      ELSE IF rule.maxLength # 0
      THEN IF ~Includes(rawVal, GS) /\ Len(rawVal) > rule.maxLength
           THEN [value |-> Substring(rawVal, 0, rule.maxLength),
                 nextStream |-> SubstringFrom(rawVal, rule.maxLength)]
           ELSE IF Includes(rawVal, GS)
           THEN [value |-> BeforeGS(rawVal), nextStream |-> AfterGS(rawVal)]
           ELSE [value |-> rawVal, nextStream |-> <<>>]
      ELSE [value |-> <<>>, nextStream |-> <<>>]

\* The extraction with no cut at maxLength.
ExtractUntruncated(s, ai) ==
  LET rule   == AI_RULES[ai]
      rawVal == SubstringFrom(s, Len(ai))
  IN  IF rule.fixedLength # 0
      THEN IF Len(s) >= Len(ai) + rule.fixedLength
           THEN [value |-> Substring(s, Len(ai), Len(ai) + rule.fixedLength),
                 nextStream |-> SubstringFrom(s, Len(ai) + rule.fixedLength)]
           ELSE [value |-> <<>>, nextStream |-> <<>>]
      ELSE IF rule.maxLength # 0
      THEN IF ~Includes(rawVal, GS) /\ Len(rawVal) > rule.maxLength
           THEN [value |-> rawVal, nextStream |-> <<>>]
           ELSE IF Includes(rawVal, GS)
           THEN [value |-> BeforeGS(rawVal), nextStream |-> AfterGS(rawVal)]
           ELSE [value |-> rawVal, nextStream |-> <<>>]
      ELSE [value |-> <<>>, nextStream |-> <<>>]

\* The extraction with a fixed-length field that is cut short taken as it is.
ExtractWithoutLengthCheck(s, ai) ==
  LET rule   == AI_RULES[ai]
      rawVal == SubstringFrom(s, Len(ai))
  IN  IF rule.fixedLength # 0
      THEN IF Len(s) >= Len(ai) + rule.fixedLength
           THEN [value |-> Substring(s, Len(ai), Len(ai) + rule.fixedLength),
                 nextStream |-> SubstringFrom(s, Len(ai) + rule.fixedLength)]
           ELSE [value |-> rawVal, nextStream |-> <<>>]
      ELSE IF rule.maxLength # 0
      THEN IF ~Includes(rawVal, GS) /\ Len(rawVal) > rule.maxLength
           THEN [value |-> Substring(rawVal, 0, rule.maxLength),
                 nextStream |-> SubstringFrom(rawVal, rule.maxLength)]
           ELSE IF Includes(rawVal, GS)
           THEN [value |-> BeforeGS(rawVal), nextStream |-> AfterGS(rawVal)]
           ELSE [value |-> rawVal, nextStream |-> <<>>]
      ELSE [value |-> <<>>, nextStream |-> <<>>]

\* The value and next stream the matched AI's length rule extracts; an
\* empty value when the fixed-length field is cut short.
Extract(s, ai) ==
  LET rule   == AI_RULES[ai]
      rawVal == SubstringFrom(s, Len(ai))
  IN  IF rule.fixedLength # 0
      THEN IF Len(s) >= Len(ai) + rule.fixedLength
           THEN [value |-> Substring(s, Len(ai), Len(ai) + rule.fixedLength),
                 nextStream |-> SubstringFrom(s, Len(ai) + rule.fixedLength)]
           ELSE [value |-> <<>>, nextStream |-> <<>>]
      ELSE IF rule.maxLength # 0
      THEN IF ~Includes(rawVal, GS) /\ Len(rawVal) > rule.maxLength
           THEN [value |-> Substring(rawVal, 0, rule.maxLength),
                 nextStream |-> SubstringFrom(rawVal, rule.maxLength)]
           ELSE IF Includes(rawVal, GS)
           THEN [value |-> BeforeGS(rawVal), nextStream |-> AfterGS(rawVal)]
           ELSE [value |-> rawVal, nextStream |-> <<>>]
      ELSE [value |-> <<>>, nextStream |-> <<>>]

\* The end of an iteration without stream = nextStream.
EndIterKeepingStream(s, ai, ex, els, warns, today) ==
  IF ex.value # <<>>
  THEN [aiFound |-> TRUE, stream |-> s,
        elements |-> processAI(ai, ex.value, els, warns, today).elements,
        warnings |-> processAI(ai, ex.value, els, warns, today).warnings]
  ELSE [aiFound |-> FALSE, stream |-> s,
        elements |-> els, warnings |-> Append(warns, WarnUnparsed(s))]

\* The end of an iteration: processAI and the new stream when a value was
\* extracted, the "Unparsed data segment" warning and break otherwise.
EndIter(s, ai, ex, els, warns, today) ==
  IF ex.value # <<>>
  THEN [aiFound |-> TRUE, stream |-> ex.nextStream,
        elements |-> processAI(ai, ex.value, els, warns, today).elements,
        warnings |-> processAI(ai, ex.value, els, warns, today).warnings]
  ELSE [aiFound |-> FALSE, stream |-> s,
        elements |-> els, warnings |-> Append(warns, WarnUnparsed(s))]

IterWith(s, ai, els, warns, today) ==
  EndIter(s, ai,
          IF ai = <<>> THEN [value |-> <<>>, nextStream |-> <<>>] ELSE Extract(s, ai),
          els, warns, today)

\* One iteration of while (stream.length > 0).
RawIter(s, els, warns, today) == IterWith(s, MatchingAI(s), els, warns, today)

Has(els, ai) == ai \in DOMAIN els

Truthy(o) == o # Undefined /\ o[1] # <<>>

\* TypeOf, with only the batch number looked at.
TypeOfBatchOnly(hasGTIN, batch, serial, expiry) ==
  IF hasGTIN /\ Truthy(batch) THEN "GS1-DataMatrix"
  ELSE IF hasGTIN THEN "GS1-128"
  ELSE "UNKNOWN"

\* "Type Detection"
TypeOf(hasGTIN, batch, serial, expiry) ==
  IF hasGTIN /\ (Truthy(batch) \/ Truthy(serial) \/ Truthy(expiry)) THEN "GS1-DataMatrix"
  ELSE IF hasGTIN THEN "GS1-128"
  ELSE "UNKNOWN"

\* Math.ceil(diff / (1000 * 3600 * 24)), NaN for an Invalid Date.
DaysToExpiry(dateObj, today) ==
  IF ~dateObj.valid THEN NaN
  ELSE Num(CeilDaysBetween(Instant(dateObj.day, EndOfDayMs), today))

\* Returned, with success computed from the elements alone.
ReturnedIgnoringWarnings(inp, els, warns, gtin, ndc, expiry, expired, days, batch, serial) ==
  [success |-> Cardinality(DOMAIN els) > 0,
   type |-> TypeOf(gtin # Undefined, batch, serial, expiry),
   elements |-> els, gtin |-> gtin, expiryDate |-> expiry,
   batchNumber |-> batch, serialNumber |-> serial, ndc |-> ndc,
   isExpired |-> expired, daysToExpiry |-> days, warnings |-> warns,
   rawData |-> inp]

\* The returned object, given the fields derived from the elements.
Returned(inp, els, warns, gtin, ndc, expiry, expired, days, batch, serial) ==
  [success |-> Cardinality(DOMAIN els) > 0 /\ Len(warns) = 0,
   type |-> TypeOf(gtin # Undefined, batch, serial, expiry),
   elements |-> els, gtin |-> gtin, expiryDate |-> expiry,
   batchNumber |-> batch, serialNumber |-> serial, ndc |-> ndc,
   isExpired |-> expired, daysToExpiry |-> days, warnings |-> warns,
   rawData |-> inp]

\* The final validation with gtin filled in only from a GTIN that passed the
\* check digit.
AssembleWithValidGtinOnly(inp, els, warns, dateInfo, today2) ==
  Returned(inp, els, warns,
           IF Has(els, AI01) /\ els[AI01].isValid THEN Some(els[AI01].value)
           ELSE Undefined,
           IF Has(els, AI01) THEN deriveNDC(els[AI01].value) ELSE Undefined,
           IF dateInfo # Null THEN Some(dateInfo[1].iso) ELSE Undefined,
           IF dateInfo # Null THEN dateInfo[1].isExpired ELSE FALSE,
           IF dateInfo # Null THEN Some(DaysToExpiry(dateInfo[1].dateObj, today2))
           ELSE Undefined,
           IF Has(els, AI10) THEN Some(els[AI10].value) ELSE Undefined,
           IF Has(els, AI21) THEN Some(els[AI21].value) ELSE Undefined)

AssembleWith(inp, els, warns, dateInfo, today2) ==
  Returned(inp, els, warns,
           IF Has(els, AI01) THEN Some(els[AI01].value) ELSE Undefined,
           IF Has(els, AI01) THEN deriveNDC(els[AI01].value) ELSE Undefined,
           IF dateInfo # Null THEN Some(dateInfo[1].iso) ELSE Undefined,
           IF dateInfo # Null THEN dateInfo[1].isExpired ELSE FALSE,
           IF dateInfo # Null THEN Some(DaysToExpiry(dateInfo[1].dateObj, today2))
           ELSE Undefined,
           IF Has(els, AI10) THEN Some(els[AI10].value) ELSE Undefined,
           IF Has(els, AI21) THEN Some(els[AI21].value) ELSE Undefined)

\* "Final Validation": the result returned after tokenizing.  today1 is the
\* clock read inside parseGS1Date, today2 the one read for daysToExpiry.
Assemble(inp, els, warns, today1, today2) ==
  AssembleWith(inp, els, warns,
               IF Has(els, AI17) THEN parseGS1Date(els[AI17].value, today1) ELSE Null,
               today2)

\* The whole while loop of the raw tokenizer, run to its end.
RECURSIVE RawLoop(_, _, _, _)
RawLoop(s, els, warns, today) ==
  IF Len(s) = 0 THEN [threw |-> FALSE, elements |-> els, warnings |-> warns]
  ELSE LET r == RawIter(s, els, warns, today)
       IN  IF r.aiFound THEN RawLoop(r.stream, r.elements, r.warnings, today)
           ELSE [threw |-> FALSE, elements |-> r.elements, warnings |-> r.warnings]

\* The whole while loop over bracketRegex.exec, run to its end.
RECURSIVE BracketLoop(_, _, _, _, _)
BracketLoop(s, li, els, warns, today) ==
  LET m == BracketExec(s, li)
  IN  IF ~m.found THEN [threw |-> FALSE, elements |-> els, warnings |-> warns]
      ELSE LET r == processAI(m.ai, m.value, els, warns, today)
           IN  IF r.threw THEN r
               ELSE BracketLoop(s, m.lastIndex, r.elements, r.warnings, today)

\* parseBarcode(input) as a function of the input and the clock reads:
\* [threw, result].
parseBarcode(inp, today1, today2) ==
  LET raw == Normalize(inp)
      lin == LinearResult(raw, inp)
      tok == IF IsBracketed(raw) THEN BracketLoop(raw, 0, NoElements, <<>>, today1)
             ELSE RawLoop(raw, NoElements, <<>>, today1)
  IN  IF lin # Null THEN [threw |-> FALSE, result |-> lin[1]]
      ELSE IF tok.threw THEN [threw |-> TRUE, result |-> InitialResult(inp)]
      ELSE [threw |-> FALSE,
            result |-> Assemble(inp, tok.elements, tok.warnings, today1, today2)]

-----------------------------------------------------------------------------
(* Inputs and clock values *)

MaxBatchLen == 2

Str(n, c) == [i \in 1..n |-> c]

GtinGood == Ds(<<0, 0, 0, 3, 6, 1, 4, 1, 4, 5, 6, 7, 8, 9>>)

GtinBad == Ds(<<0, 0, 3, 6, 1, 4, 1, 4, 5, 6, 7, 8, 9, 0>>)

Gtins == {GtinGood, GtinBad}

Date251231 == Ds(<<2, 5, 1, 2, 3, 1>>)

Dates == {Date251231, Ds(<<2, 5, 0, 2, 0, 0>>), Ds(<<9, 9, 1, 2, 3, 1>>)}

BatchChars == {"A", "7", " "}

RECURSIVE SeqsUpTo(_, _)
SeqsUpTo(cs, n) ==
  IF n = 0 THEN {<<>>}
  ELSE LET shorter == SeqsUpTo(cs, n - 1)
       IN  shorter \cup {Append(t, c) : t \in shorter, c \in cs}

Batches == (SeqsUpTo(BatchChars, MaxBatchLen) \ {<<>>}) \cup {Str(20, "B")}

\* "01" g "17" d "10" b
RawStream(g, d, b) == AI01 \o g \o AI17 \o d \o AI10 \o b

Paren(ai) == <<"(">> \o ai \o <<")">>

\* "(01)" g "(17)" d "(10)" b
BracketedStream(g, d, b) == Paren(AI01) \o g \o Paren(AI17) \o d \o Paren(AI10) \o b

CompositeInputs ==
  {RawStream(g, d, b) : g \in Gtins, d \in Dates, b \in Batches}
    \cup {BracketedStream(g, d, b) : g \in Gtins, d \in Dates, b \in Batches}

Ean13Good == Ds(<<4, 0, 0, 6, 3, 8, 1, 3, 3, 3, 9, 3, 1>>)

UpcGood == Ds(<<0, 3, 6, 0, 0, 0, 2, 9, 1, 4, 5, 2>>)

LinearDigits ==
  { Ean13Good, UpcGood,
    Ds(<<4, 0, 0, 6, 3, 8, 1, 3, 3, 3, 9, 3, 2>>),
    Ds(<<0, 3, 6, 0, 0, 0, 2, 9, 1, 4, 5, 3>>),
    Ds(<<1, 0, 1, 2, 3, 4, 5, 6, 7, 8, 9, 0>>),
    Ds(<<1, 7, 2, 5, 1, 2, 3, 1, 1, 0, 1, 2, 3>>),
    Ds(<<0, 1, 0, 0, 6, 1, 4, 1, 4, 1, 9, 9, 9>>),
    Ds(<<2, 0, 1, 2, 3, 0, 1, 2, 3, 4, 5, 6>>),
    Ds(<<3, 0, 1, 2, 3, 4, 5, 6, 7, 8, 9, 9>>),
    Ds(<<9, 9, 1, 2, 3, 4, 5, 6, 7, 8, 9, 9>>) }

Wrapped(x) ==
  {x, PrefixD2 \o x, PrefixC1 \o x, <<" ">> \o x \o <<" ">>, <<" ">> \o PrefixD2 \o x,
   PrefixD2 \o <<" ">> \o x}

LinearInputs == UNION {Wrapped(x) : x \in LinearDigits}

OtherInputs ==
  { <<>>, <<" ">>, <<" ", "\n">>, PrefixD2, PrefixC1 \o <<" ">>,
    Paren(Ds(<<9, 9>>)) \o <<"A", "B", "C">>,
    <<"(", ")">>, Paren(AI01), <<"(", "A", ")", "B">>, <<"X", "Y", "Z">>,
    <<"(">>, <<"A", ")", "(">>,
    Ds(<<0, 8, 0, 0, 6, 1, 4, 1, 4, 1, 9, 9, 9, 9, 9, 6>>),
    AI01 \o GtinGood, AI01 \o GtinBad, PrefixD2 \o AI01 \o GtinGood,
    AI01 \o Ds(<<1, 2, 3>>),
    Paren(AI01) \o GtinGood, Paren(AI01) \o GtinBad,
    Paren(AI17) \o Date251231, AI17 \o Date251231,
    Paren(AI17) \o Ds(<<1, 2>>), Paren(AI17) \o <<"A", "B", "C", "D", "E", "F">>,
    Paren(AI01) \o GtinGood \o Paren(AI17) \o Ds(<<1, 2>>),
    Paren(AI01) \o GtinGood \o Paren(AI21) \o <<"S", "1">>,
    AI01 \o GtinGood \o AI21 \o <<"S", "1">>,
    AI01 \o GtinBad \o AI17 \o Date251231,
    AI10 \o <<"L", "1", GS>> \o AI17 \o Date251231,
    AI21 \o <<"S", "1", GS>> \o AI01 \o GtinGood,
    AI10 \o <<GS, "A">>, AI10 \o Str(21, "B"),
    AI10 \o <<"L", GS>> \o AI21 \o <<"S", GS>> \o AI17 \o Date251231,
    AI10 \o Str(21, "B") \o <<GS>> \o AI21 \o <<"S">>,
    AI21 \o <<"S", GS, GS>> \o AI10 \o <<"L">>, AI10 \o Str(20, "B") \o AI21 \o <<"S">>,
    AI01 \o GtinBad \o AI01 \o GtinGood,
    AI01 \o GtinGood \o <<"?", "?">>,
    Ds(<<7, 0, 0, 3, 2, 5, 1, 2, 3, 1, 1, 2, 0, 0>>),
    Ds(<<2, 4, 0>>) \o <<"P", "1">>, Ds(<<2, 0, 4, 2>>) }

Inputs == CompositeInputs \cup LinearInputs \cup OtherInputs

\* Arguments of validateGTIN: accepted strings, every single-digit replacement
\* of two of them, and strings of the wrong length or alphabet.
GtinZeros == Str(14, "0")

GtinAccepted == {GtinGood, GtinZeros, <<"0">> \o Ean13Good}

ReplaceAt(s, i, c) == [s EXCEPT ![i] = c]

SingleDigitChanges(g) == {ReplaceAt(g, i, c) : i \in 1..14, c \in Digits} \ {g}

GtinArgs ==
  GtinAccepted \cup SingleDigitChanges(GtinGood) \cup SingleDigitChanges(GtinZeros)
    \cup { <<>>, GtinBad, Ean13Good, UpcGood, GtinGood \o <<"0">>, Str(13, "0"), Str(15, "0"),
           ReplaceAt(GtinGood, 14, "A"), ReplaceAt(GtinZeros, 1, " "),
           ReplaceAt(GtinGood, 1, "-"), Str(14, "A") }

TwoDigits(n) == <<DigitChar[(n \div 10) + 1], DigitChar[(n % 10) + 1]>>

\* Arguments of parseGS1Date: every YY MM "00", calendar dates around the
\* pivot and the clock days, and strings that are short or not digits.
DayZeroArgs == {TwoDigits(yy) \o TwoDigits(mm) \o TwoDigits(0) : yy \in 0..99, mm \in 1..12}

CalendarArgs ==
  {TwoDigits(yy) \o TwoDigits(mm) \o TwoDigits(dd) :
     yy \in {0, 21, 25, 26, 70, 71, 99}, mm \in {1, 2, 12}, dd \in {1, 28, 30, 31}}

DateArgs ==
  DayZeroArgs \cup CalendarArgs
    \cup { <<>>, Ds(<<1, 2>>), Ds(<<2, 5, 1, 2, 3>>), Ds(<<2, 5, 1, 3, 0, 1>>),
           Ds(<<2, 5, 0, 0, 1, 5>>), Ds(<<2, 5, 0, 2, 3, 0>>),
           <<"A", "B", "C", "D", "E", "F">>, Ds(<<2, 5, 1, 2>>) \o <<"A", "B">>,
           Ds(<<2, 5, 1, 2, 3, 1, 9, 9>>) }

\* Barcodes decoded one after another: one that throws inside the bracketed
\* loop, composite and linear ones, and ones that fail.
SeqInputs ==
  { Paren(Ds(<<9, 9>>)) \o <<"A", "B", "C">>,
    BracketedStream(GtinGood, Date251231, <<"A">>),
    RawStream(GtinGood, Date251231, <<"A">>),
    Paren(AI17) \o Ds(<<1, 2>>),
    AI01 \o GtinBad,
    Ean13Good, <<>>, <<"X", "Y", "Z">> }

MaxCalls == 3

\* Calendar days the clock is read on, and the times of day.
ClockDays == {MakeDay(2021, 11, 30), MakeDay(2025, 11, 31), MakeDay(2026, 0, 1)}

ClockMs == {0, EndOfDayMs}

Clock == {Instant(d, ms) : d \in ClockDays, ms \in ClockMs}

SeqClock == {Instant(MakeDay(2025, 11, 31), EndOfDayMs), Instant(MakeDay(2026, 0, 1), 0)}

\* The clock one millisecond later.
Tick(t) == IF t.ms = EndOfDayMs THEN Instant(t.day + 1, 0) ELSE Instant(t.day, t.ms + 1)

-----------------------------------------------------------------------------
(* The state machine: one call of parseBarcode after another *)

Init ==
  /\ pc = "idle"
  /\ input = <<>>
  /\ now = Instant(0, 0)
  /\ rawData = <<>>
  /\ stream = <<>>
  /\ lastIndex = 0
  /\ elements = NoElements
  /\ warnings = <<>>
  /\ result = InitialResult(<<>>)
  /\ path = "none"
  /\ iters = 0
  /\ calls = 0
  /\ aiRules = AI_RULES
  /\ history = <<>>
  /\ currentScan = Null

\* The entry of parseBarcode with bracketRegex kept at module level: its
\* lastIndex is what the call before left.
CallSharedRegex(inp, t) ==
  /\ pc = "idle"
  /\ calls < MaxCalls
  /\ pc' = "linear"
  /\ input' = inp
  /\ now' = t
  /\ rawData' = Normalize(inp)
  /\ stream' = <<>>
  /\ elements' = NoElements
  /\ warnings' = <<>>
  /\ result' = InitialResult(inp)
  /\ path' = "none"
  /\ iters' = 0
  /\ calls' = calls + 1
  /\ UNCHANGED <<lastIndex, aiRules, history, currentScan>>

\* parseBarcode(inp) is entered at clock time t: trim, prefix removal, and
\* the construction of the result object.
Call(inp, t) ==
  /\ pc = "idle"
  /\ calls < MaxCalls
  /\ pc' = "linear"
  /\ input' = inp
  /\ now' = t
  /\ rawData' = Normalize(inp)
  /\ stream' = <<>>
  /\ lastIndex' = 0
  /\ elements' = NoElements
  /\ warnings' = <<>>
  /\ result' = InitialResult(inp)
  /\ path' = "none"
  /\ iters' = 0
  /\ calls' = calls + 1
  /\ UNCHANGED <<aiRules, history, currentScan>>

\* Step 2, the EAN/UPC branch: return at once, or go on to the tokenizer.
LinearCheck ==
  /\ pc = "linear"
  /\ LET lin == LinearResult(rawData, input)
     IN  IF lin # Null
         THEN /\ result' = lin[1]
              /\ pc' = "done"
              /\ path' = "linear"
              /\ UNCHANGED stream
         ELSE /\ stream' = rawData
              /\ pc' = IF IsBracketed(rawData) THEN "bracket" ELSE "raw"
              /\ path' = IF IsBracketed(rawData) THEN "bracket" ELSE "raw"
              /\ UNCHANGED result
  /\ UNCHANGED <<input, now, rawData, lastIndex, elements, warnings, iters>>
  /\ UNCHANGED <<calls, aiRules, history, currentScan>>

\* One test of the bracketed while loop: exec, and processAI on a match.  An
\* exec that finds no match leaves lastIndex at 0.
BracketStep ==
  /\ pc = "bracket"
  /\ LET m == BracketExec(stream, lastIndex)
         r == processAI(m.ai, m.value, elements, warnings, now)
     IN  IF ~m.found
         THEN /\ pc' = "final"
              /\ lastIndex' = 0
              /\ UNCHANGED <<elements, warnings, iters>>
         ELSE /\ pc' = IF r.threw THEN "threw" ELSE "bracket"
              /\ elements' = r.elements
              /\ warnings' = r.warnings
              /\ lastIndex' = m.lastIndex
              /\ iters' = iters + 1
  /\ UNCHANGED <<input, now, rawData, stream, result, path>>
  /\ UNCHANGED <<calls, aiRules, history, currentScan>>

\* One test of while (stream.length > 0), and one iteration when it holds.
RawStep ==
  /\ pc = "raw"
  /\ IF Len(stream) = 0
     THEN /\ pc' = "final"
          /\ UNCHANGED <<stream, elements, warnings, iters>>
     ELSE LET r == RawIter(stream, elements, warnings, now)
          IN  /\ pc' = IF r.aiFound THEN "raw" ELSE "final"
              /\ stream' = r.stream
              /\ elements' = r.elements
              /\ warnings' = r.warnings
              /\ iters' = iters + 1
  /\ UNCHANGED <<input, now, rawData, lastIndex, result, path>>
  /\ UNCHANGED <<calls, aiRules, history, currentScan>>

\* Final validation, type detection, success; the clock is read once inside
\* parseGS1Date and once more for daysToExpiry, at the same millisecond or
\* the next.
Finalize ==
  /\ pc = "final"
  /\ \E t2 \in {now, Tick(now)} :
       result' = Assemble(input, elements, warnings, now, t2)
  /\ pc' = "done"
  /\ UNCHANGED <<input, now, rawData, stream, lastIndex, elements, warnings, path, iters>>
  /\ UNCHANGED <<calls, aiRules, history, currentScan>>

\* The call is over: the result was returned, or the exception propagated,
\* and the call's locals are gone.
Return ==
  /\ pc \in {"done", "threw", "validated", "dated", "derived"}
  /\ pc' = "idle"
  /\ input' = <<>>
  /\ now' = Instant(0, 0)
  /\ rawData' = <<>>
  /\ stream' = <<>>
  /\ lastIndex' = 0
  /\ elements' = NoElements
  /\ warnings' = <<>>
  /\ result' = InitialResult(<<>>)
  /\ path' = "none"
  /\ iters' = 0
  /\ calls' = 0
  /\ UNCHANGED <<aiRules, history, currentScan>>

\* validateGTIN(gtin), called on its own.
ValidateCall(gtin) ==
  /\ pc = "idle"
  /\ pc' = "validated"
  /\ input' = gtin
  /\ result' = validateGTIN(gtin)
  /\ UNCHANGED <<now, rawData, stream, lastIndex, elements, warnings, path, iters>>
  /\ UNCHANGED <<calls, aiRules, history, currentScan>>

\* parseGS1Date(yymmdd), called on its own at clock time t.
DateCall(yymmdd, t) ==
  /\ pc = "idle"
  /\ pc' = "dated"
  /\ input' = yymmdd
  /\ now' = t
  /\ result' = parseGS1Date(yymmdd, t)
  /\ UNCHANGED <<rawData, stream, lastIndex, elements, warnings, path, iters>>
  /\ UNCHANGED <<calls, aiRules, history, currentScan>>

Next ==
  \/ \E inp \in Inputs, t \in Clock : Call(inp, t)
  \/ LinearCheck
  \/ BracketStep
  \/ RawStep
  \/ Finalize
  \/ Return

Spec == Init /\ [][Next]_vars

\* The call is over, and what it left in memory stays as it is.
Unwind ==
  /\ pc \in {"done", "threw"}
  /\ pc' = "idle"
  /\ UNCHANGED <<input, now, rawData, stream, lastIndex, elements, warnings,
                 result, path, iters, calls, aiRules, history, currentScan>>

\* Calls of parseBarcode one after another, each finding what the calls
\* before it left.
NextSeq ==
  \/ \E inp \in SeqInputs, t \in SeqClock : Call(inp, t)
  \/ LinearCheck
  \/ BracketStep
  \/ RawStep
  \/ Finalize
  \/ Unwind

SpecSeq == Init /\ [][NextSeq]_vars

\* deriveNDC(gtin), called on its own.
DeriveCall(gtin) ==
  /\ pc = "idle"
  /\ pc' = "derived"
  /\ input' = gtin
  /\ result' = deriveNDC(gtin)
  /\ UNCHANGED <<now, rawData, stream, lastIndex, elements, warnings, path, iters>>
  /\ UNCHANGED <<calls, aiRules, history, currentScan>>

\* The helpers of the module, each called directly.
NextHelpers ==
  \/ \E gtin \in GtinArgs : ValidateCall(gtin)
  \/ \E gtin \in GtinArgs : DeriveCall(gtin)
  \/ \E yymmdd \in DateArgs, t \in Clock : DateCall(yymmdd, t)
  \/ Return

SpecHelpers == Init /\ [][NextHelpers]_vars

-----------------------------------------------------------------------------
(* The scanner page (PharmacyScanner): handleScan and the scan history *)

MaxHistory == 2

DupWindowMs == 300000

DupWarning == <<"Duplicate Scan detected within last 5 minutes">>

\* Date.now() - h.timestamp < 300000, for a scan at t and an entry stamped at
\* stamp; days apart are compared first, to keep the numbers small.
Recent(stamp, t) ==
  \/ t.day < stamp.day
  \/ t.day = stamp.day /\ t.ms - stamp.ms < DupWindowMs
  \/ t.day = stamp.day + 1 /\ (MsPerDay - stamp.ms) + t.ms < DupWindowMs

\* history.some(h => h.gtin === result.gtin && h.serialNumber ===
\* result.serialNumber && Date.now() - h.timestamp < 300000)
isRecentDuplicate(res, hist, t) ==
  \E i \in DOMAIN hist :
    /\ hist[i].gtin = res.gtin
    /\ hist[i].serialNumber = res.serialNumber
    /\ Recent(hist[i].timestamp, t)

\* The object parseBarcode returned, after result.warnings.push(...): the
\* push is on the array the object holds.
AfterDuplicateCheck(res, hist, t) ==
  IF isRecentDuplicate(res, hist, t)
  THEN [res EXCEPT !.warnings = Append(@, DupWarning)]
  ELSE res

\* { ...result, timestamp: Date.now(), id }: a shallow copy, so warnings is
\* the array of result; the random id is left out.
Timestamped(res, t) ==
  [f \in DOMAIN res \cup {"timestamp"} |-> IF f = "timestamp" THEN t ELSE res[f]]

\* The store's addToHistory: the new entry goes to the front.
addToHistory(hist, entry) == <<entry>> \o hist

\* What the hardware listener or the manual form hands to handleScan.
ScanInputs ==
  { Ean13Good,
    AI01 \o GtinGood \o AI21 \o <<"S", "1">>,
    RawStream(GtinGood, Date251231, <<"A">>),
    AI01 \o GtinBad,
    <<"X", "Y", "Z">> }

\* setCurrentScan(result) and addToHistory(timestampedResult).
SetScanState(shown, t) ==
  /\ currentScan' = Some(shown)
  /\ history' = addToHistory(history, Timestamped(shown, t))

\* The body of handleScan after parseBarcode has returned; a call that
\* throws ends the callback before any state is set.
AfterDecode(call, t) ==
  /\ ~call.threw
  /\ SetScanState(AfterDuplicateCheck(call.result, history, t), t)

\* handleScan(raw) at clock time t, the whole callback.
handleScan(raw, t) ==
  /\ pc = "idle"
  /\ Len(history) < MaxHistory
  /\ IF history = <<>> THEN TRUE ELSE ~Before(t, history[1].timestamp)
  /\ \E t2 \in {t, Tick(t)} : AfterDecode(parseBarcode(raw, t, t2), t)
  /\ UNCHANGED <<pc, input, now, rawData, stream, lastIndex, elements, warnings,
                 result, path, iters, calls, aiRules>>

NextScan == \E raw \in ScanInputs, t \in Clock : handleScan(raw, t)

SpecScan == Init /\ [][NextScan]_vars

-----------------------------------------------------------------------------
(* Properties *)

Returns == pc = "done"

\* A result that came out of the tokenizer and the final validation.
CompositeReturn == pc = "done" /\ path \in {"bracket", "raw"}

Present(o) == o # Undefined

\* AI 17 was decoded from six digits.
SixDigitExpiry ==
  /\ Has(result.elements, AI17)
  /\ Len(result.elements[AI17].rawValue) = 6
  /\ AllDigits(result.elements[AI17].rawValue)

\* C1: every returned result has success = (elements is non-empty AND
\* warnings is empty), on the linear path and on both composite paths.
C1_SuccessIsElementsAndNoWarnings ==
  Returns => (result.success = (DOMAIN result.elements # {} /\ result.warnings = <<>>))

C1_Witness ==
  /\ Returns /\ path = "linear" /\ result.success
  /\ DOMAIN result.elements # {} /\ result.warnings = <<>>

\* C2: when AI 17 is decoded from six digits YYMMDD, expiryDate is the ISO
\* date the Date Decoder gives for those digits, which is elements['17'].value.
C2_ExpiryDateIsDecodedDate ==
  (Returns /\ SixDigitExpiry) =>
    /\ result.expiryDate = Some(parseGS1Date(result.elements[AI17].rawValue, now)[1].iso)
    /\ result.expiryDate = Some(result.elements[AI17].value)

\* C3: when AI 17 is decoded from six digits, isExpired holds exactly when
\* 23:59:59.999 of the day they denote is before the decode time, and
\* daysToExpiry is the ceiling of the days from the decode time to it.
C3_ExpiryVerdictOfRawDate ==
  (Returns /\ SixDigitExpiry) =>
    LET d   == parseGS1Date(result.elements[AI17].rawValue, now)[1].dateObj
        eod == Instant(d.day, EndOfDayMs)
    IN  /\ result.isExpired = Before(eod, now)
        /\ \E t \in {now, Tick(now)} :
             result.daysToExpiry = Some(Num(CeilDaysBetween(eod, t)))

\* C4: parseBarcode never raises an exception.
C4_NeverThrows == pc # "threw"

\* C5: a result with no elements and no warnings is returned only for an
\* empty or whitespace-only input.
C5_DefaultResultOnlyForBlankInput ==
  (Returns /\ DOMAIN result.elements = {} /\ result.warnings = <<>>) => Trim(input) = <<>>

\* C6 as claimed: for the raw stream "01" g "17" d "10" b, with any batch b
\* of 1 to 20 characters without separator or parenthesis, gtin = g,
\* batchNumber = b, the type is GS1-DataMatrix and success holds iff g
\* passes the checksum; a failing g leaves exactly the one checksum warning
\* with gtin, batchNumber and the AI 17 element populated.
C6_RawStreamFields(g, d, b) ==
  /\ result.gtin = Some(g)
  /\ result.batchNumber = Some(b)
  /\ result.type = "GS1-DataMatrix"
  /\ result.success = validateGTIN(g)
  /\ Has(result.elements, AI17)
  /\ result.elements[AI17].rawValue = d
  /\ result.warnings = IF validateGTIN(g) THEN <<>> ELSE <<WarnGTIN>>

C6_RawStreamDecodes ==
  \A g \in Gtins, d \in Dates, b \in Batches :
    (Returns /\ input = RawStream(g, d, b)) => C6_RawStreamFields(g, d, b)

\* C6 as amended: the same, for a batch b that does not end in white space
\* (the input is trimmed before it is tokenized).
C6_RawStreamDecodesUntrimmedBatch ==
  \A g \in Gtins, d \in Dates, b \in Batches :
    (Returns /\ input = RawStream(g, d, b) /\ b[Len(b)] \notin WhiteSpace)
      => C6_RawStreamFields(g, d, b)

C6_Witness ==
  /\ Returns /\ input = RawStream(GtinBad, Date251231, <<" ", "7">>)
  /\ result.warnings = <<WarnGTIN>> /\ ~result.success
  /\ result.batchNumber = Some(<<" ", "7">>) /\ result.gtin = Some(GtinBad)

\* C7: the bracketed input "(01)g(17)d(10)b" and the raw stream
\* "01" g "17" d "10" b decode to the same gtin, expiryDate and batchNumber.
C7_BracketedEqualsRaw ==
  \A g \in Gtins, d \in Dates, b \in Batches :
    (Returns /\ input = RawStream(g, d, b)) =>
      LET other == parseBarcode(BracketedStream(g, d, b), now, now)
      IN  /\ ~other.threw
          /\ other.result.gtin = result.gtin
          /\ other.result.expiryDate = result.expiryDate
          /\ other.result.batchNumber = result.batchNumber

C7_Witness ==
  /\ Returns /\ path = "raw" /\ input = RawStream(GtinGood, Date251231, <<"A", "7">>)
  /\ result.gtin = Some(GtinGood) /\ result.batchNumber = Some(<<"A", "7">>)
  /\ Present(result.expiryDate)

AnyOfBatchSerialExpiry ==
  Present(result.batchNumber) \/ Present(result.serialNumber) \/ Present(result.expiryDate)

\* C8 as claimed: a composite decode is GS1-DataMatrix exactly when an AI 01
\* element that passed its checksum is present with at least one of
\* batchNumber, serialNumber, expiryDate; GS1-128 exactly when AI 01 is
\* present without any of the three; UNKNOWN otherwise, in particular when
\* the AI 01 decoded failed its checksum.
C8_TypeNeedsValidGtin ==
  CompositeReturn =>
    LET has01   == Has(result.elements, AI01)
        valid01 == has01 /\ result.elements[AI01].isValid
        matrix  == valid01 /\ AnyOfBatchSerialExpiry
        linear  == has01 /\ ~AnyOfBatchSerialExpiry
    IN  /\ (result.type = "GS1-DataMatrix") = matrix
        /\ (result.type = "GS1-128") = linear
        /\ (result.type = "UNKNOWN") = (~matrix /\ ~linear)

\* C8 as amended: a composite decode is GS1-DataMatrix exactly when an AI 01
\* element is present, whether or not it passed its checksum, with at least
\* one of batchNumber, serialNumber, expiryDate; GS1-128 exactly when AI 01
\* is present without any of the three; UNKNOWN exactly when no AI 01
\* element is present.
C8_TypeFromPresence ==
  CompositeReturn =>
    LET has01 == Has(result.elements, AI01)
    IN  /\ (result.type = "GS1-DataMatrix") = (has01 /\ AnyOfBatchSerialExpiry)
        /\ (result.type = "GS1-128") = (has01 /\ ~AnyOfBatchSerialExpiry)
        /\ (result.type = "UNKNOWN") = ~has01

C8_Witness ==
  /\ CompositeReturn /\ Has(result.elements, AI01) /\ ~result.elements[AI01].isValid
  /\ Present(result.serialNumber) \/ Present(result.batchNumber)
  /\ result.type = "GS1-DataMatrix"

\* The input normalises to 12 or 13 digits; Padded is their 14-digit form.
LinearInput == IsLinearCandidate(Normalize(input))

Padded == PadStart(Normalize(input), 14)

\* C9: an input that is 12 or 13 digits after trimming and prefix removal
\* and passes the checksum when padded returns at once: EAN-13 or UPC-A by
\* length, success, no warnings, gtin the padded digits, AI 01 the only
\* element and valid, the tokenizer not run.
C9_LinearShortCircuit ==
  (Returns /\ LinearInput /\ validateGTIN(Padded)) =>
    /\ result.type = (IF Len(Normalize(input)) = 13 THEN "EAN-13" ELSE "UPC-A")
    /\ result.success
    /\ result.warnings = <<>>
    /\ result.gtin = Some(Padded)
    /\ DOMAIN result.elements = {AI01}
    /\ result.elements[AI01].isValid
    /\ path = "linear" /\ iters = 0

C9_Witness ==
  /\ Returns /\ input = <<" ">> \o PrefixD2 \o UpcGood
  /\ result.type = "UPC-A" /\ result.gtin = Some(<<"0", "0">> \o UpcGood)

\* C10 as claimed: a 12- or 13-digit input that fails the checksum when
\* padded is not classified EAN-13 or UPC-A; it goes through composite
\* parsing and the result has type UNKNOWN and success = false.
C10_FailedLinearIsUnknownAndFails ==
  (Returns /\ LinearInput /\ ~validateGTIN(Padded)) =>
    /\ path = "raw"
    /\ result.type = "UNKNOWN"
    /\ ~result.success

\* C10 as amended: such an input is not classified EAN-13 or UPC-A; it goes
\* through the raw tokenizer and the result has type UNKNOWN and no gtin;
\* success is false when the tokenizer recorded a warning and true when the
\* digits were consumed as AI fields without one.
C10_FailedLinearIsUnknown ==
  (Returns /\ LinearInput /\ ~validateGTIN(Padded)) =>
    /\ path = "raw" /\ iters >= 1
    /\ result.type = "UNKNOWN"
    /\ result.gtin = Undefined
    /\ result.success = (result.warnings = <<>>)

C10_Witness ==
  /\ Returns /\ input = Ds(<<1, 0, 1, 2, 3, 4, 5, 6, 7, 8, 9, 0>>)
  /\ result.type = "UNKNOWN" /\ result.success
  /\ result.batchNumber = Some(Ds(<<1, 2, 3, 4, 5, 6, 7, 8, 9, 0>>))

-----------------------------------------------------------------------------
(* Properties of validateGTIN and parseGS1Date called directly *)

Validated == pc = "validated"

Dated == pc = "dated"

\* 3*d13 + 1*d12 + 3*d11 + ... + 3*d1 of a 14-digit string d1..d14.
RECURSIVE Mod10Sum(_, _)
Mod10Sum(s, i) ==
  IF i = 0 THEN 0
  ELSE DigitVal(s[i]) * (IF i % 2 = 1 THEN 3 ELSE 1) + Mod10Sum(s, i - 1)

Mod10CheckDigit(s) == (10 - (Mod10Sum(s, 13) % 10)) % 10

FourteenDigits(s) == Len(s) = 14 /\ AllDigits(s)

\* C11: validateGTIN returns true exactly when its argument is 14 decimal
\* digits d1..d14 with d14 = (10 - (3*d13 + 1*d12 + ... + 3*d1) mod 10) mod 10,
\* and false for every other string (wrong length, a non-digit, empty).
C11_ValidateGTINIsMod10 ==
  Validated =>
    (result = (FourteenDigits(input) /\ DigitVal(input[14]) = Mod10CheckDigit(input)))

C11_Witness ==
  /\ Validated /\ input = GtinGood /\ result = TRUE
  /\ Mod10CheckDigit(input) = 9

\* C12: an accepted 14-digit string with any one of its 14 digits replaced
\* by a different digit is rejected, and of the ten strings that share its
\* 13-digit payload it is the only one accepted.
C12_SingleDigitChangeRejected ==
  (Validated /\ result = TRUE) =>
    /\ \A changed \in SingleDigitChanges(input) : ~validateGTIN(changed)
    /\ Cardinality({c \in Digits : validateGTIN(ReplaceAt(input, 14, c))}) = 1

C12_Witness ==
  /\ Validated /\ result = TRUE
  /\ input = <<"0">> \o Ean13Good
  /\ SingleDigitChanges(input) # {}

\* The fields of a six-digit argument, and the year the pivot gives YY.
FieldYY(s) == DigitsToNat(Substring(s, 0, 2))

FieldMM(s) == DigitsToNat(Substring(s, 2, 4))

FieldDD(s) == DigitsToNat(Substring(s, 4, 6))

PivotYear(yy) == IF yy > 70 THEN 1900 + yy ELSE 2000 + yy

SixDigits(s) == Len(s) = 6 /\ AllDigits(s)

IsoOf(y, m, d) == NatToStr(y) \o <<"-">> \o TwoDigits(m) \o <<"-">> \o TwoDigits(d)

\* C13: parseGS1Date maps YY to 1900 + YY when YY > 70 and to 2000 + YY
\* otherwise (70 -> 2070, 71 -> 1971), and the ISO string it returns begins
\* with that four-digit year.
C13_CenturyPivot ==
  (Dated /\ SixDigits(input)) =>
    /\ result # Null
    /\ Substring(result[1].iso, 0, 5) = NatToStr(PivotYear(FieldYY(input))) \o <<"-">>

C13_Witness ==
  /\ Dated /\ SixDigits(input) /\ FieldYY(input) = 70 /\ FieldDD(input) = 1
  /\ Substring(result[1].iso, 0, 4) = Ds(<<2, 0, 7, 0>>)

\* C14: for every YY in 00..99 and MM in 01..12, parseGS1Date of YY MM "00"
\* returns a record whose day is the last calendar day of month MM of the
\* pivoted year (28 or 29 for February by that year's leapness).
C14_DayZeroIsLastDayOfMonth ==
  (Dated /\ SixDigits(input) /\ FieldMM(input) \in 1..12 /\ FieldDD(input) = 0) =>
    /\ result # Null
    /\ result[1].iso = IsoOf(PivotYear(FieldYY(input)), FieldMM(input),
                             DaysInMonth(PivotYear(FieldYY(input)), FieldMM(input)))
    /\ result[1].dateObj.valid
    /\ result[1].dateObj.day =
         MakeDay(PivotYear(FieldYY(input)), FieldMM(input) - 1,
                 DaysInMonth(PivotYear(FieldYY(input)), FieldMM(input)))

C14_Witness ==
  /\ Dated /\ input = Ds(<<1, 7, 0, 2, 0, 0>>)
  /\ result[1].iso = Ds(<<2, 0, 1, 7>>) \o <<"-">> \o Ds(<<0, 2>>) \o <<"-">> \o Ds(<<2, 8>>)

\* A six-digit argument that names a calendar day of the pivoted year.
CalendarDate(s) ==
  /\ SixDigits(s)
  /\ FieldMM(s) \in 1..12
  /\ FieldDD(s) \in 1..DaysInMonth(PivotYear(FieldYY(s)), FieldMM(s))

DecodedDay(s) == MakeDay(PivotYear(FieldYY(s)), FieldMM(s) - 1, FieldDD(s))

\* C15: for a calendar date YYMMDD, isExpired is false at every evaluation
\* time up to and including 23:59:59.999 of that day and true from 00:00 of
\* the following day.
C15_ExpiredFromNextDay ==
  (Dated /\ CalendarDate(input)) =>
    /\ result # Null
    /\ (now.day <= DecodedDay(input) => ~result[1].isExpired)
    /\ (now.day >= DecodedDay(input) + 1 => result[1].isExpired)

C15_Witness ==
  /\ Dated /\ input = Date251231
  /\ now = Instant(DecodedDay(input), EndOfDayMs)
  /\ ~result[1].isExpired

-----------------------------------------------------------------------------
(* Properties of parseBarcode, continued *)

Warned(w) == \E i \in DOMAIN result.warnings : result.warnings[i] = w

\* The value decoded for a date-typed AI is shorter than six characters or
\* holds a character that is not a digit.
MalformedDate(ai) ==
  /\ AI_RULES[ai].type = "date"
  /\ (Len(result.elements[ai].rawValue) < 6 \/ ~AllDigits(result.elements[ai].rawValue))

\* C16: a date-typed AI whose value is shorter than six characters or holds
\* a non-digit character is stored with isValid = false, the warning
\* 'Invalid Date for AI (<code>)' is recorded, and success is false.
C16_MalformedDateIsFlagged ==
  CompositeReturn =>
    \A ai \in DOMAIN result.elements :
      MalformedDate(ai) =>
        /\ ~result.elements[ai].isValid
        /\ Warned(WarnDate(ai))
        /\ ~result.success

\* C17: in every returned result gtin is present exactly when elements holds
\* AI 01, and then gtin is elements['01'].value whether or not the check
\* digit is right; elements['01'].isValid carries the check-digit verdict.
C17_GtinMirrorsElement01 ==
  Returns =>
    /\ Present(result.gtin) <=> Has(result.elements, AI01)
    /\ Has(result.elements, AI01) =>
         /\ result.gtin = Some(result.elements[AI01].value)
         /\ result.elements[AI01].isValid = validateGTIN(result.elements[AI01].value)

C17_Witness ==
  /\ CompositeReturn /\ Has(result.elements, AI01)
  /\ ~result.elements[AI01].isValid
  /\ result.gtin = Some(GtinBad)

-----------------------------------------------------------------------------
(* Properties of the scanner page *)

SuccessMeansNoWarnings(res) == res.success => res.warnings = <<>>

\* C18: the duplicate-scan warning goes to a copy, the object parseBarcode
\* returned is not changed, so on the displayed result and on every stored
\* result success = true still implies an empty warnings list.
C18_ShownResultsKeepSuccessRule ==
  /\ currentScan # Null => SuccessMeansNoWarnings(currentScan[1])
  /\ \A i \in DOMAIN history : SuccessMeansNoWarnings(history[i])

-----------------------------------------------------------------------------
(* Properties of calls made one after another *)

\* C19: parseBarcode keeps nothing between calls: after any sequence of
\* earlier calls the result of decoding an input is the result of decoding
\* it alone at the same clock time (a throw stays a throw), and the AI rule
\* table is what it was before the first call.
C19_CallsAreIndependent ==
  /\ aiRules = AI_RULES
  /\ pc = "done" =>
       \E t2 \in {now, Tick(now)} :
         parseBarcode(input, now, t2) = [threw |-> FALSE, result |-> result]
  /\ pc = "threw" => parseBarcode(input, now, now).threw

C19_Witness ==
  /\ pc = "done" /\ calls = MaxCalls /\ path = "bracket"
  /\ result.success
  /\ parseBarcode(input, now, now).result.elements = result.elements

-----------------------------------------------------------------------------
(* Progress of the tokenizer loops *)

\* C20: parseBarcode terminates on every input: an iteration of the raw loop
\* that stays in the loop leaves a strictly shorter stream, an iteration of
\* the bracketed loop that stays in the loop has moved lastIndex forward
\* within the stream, and so no call runs more iterations than its input
\* has characters.
C20_LoopsAdvance ==
  [][ /\ (pc = "raw" /\ pc' = "raw") => Len(stream') < Len(stream)
      /\ (pc = "bracket" /\ pc' = "bracket") =>
           (lastIndex' > lastIndex /\ lastIndex' <= Len(stream'))
      /\ iters' <= Len(rawData') ]_vars

C20_Witness ==
  /\ pc = "raw" /\ iters = 2
  /\ Len(stream) > 0 /\ Len(stream) < Len(rawData)

-----------------------------------------------------------------------------
(* Properties of deriveNDC called directly *)

Derived == pc = "derived"

\* Characters 2 through 12 (counted from 0) of s, grouped 5-4-2.
FiveFourTwo(s) ==
  SubSeq(s, 3, 7) \o <<"-">> \o SubSeq(s, 8, 11) \o <<"-">> \o SubSeq(s, 12, 13)

\* C21: deriveNDC returns the characters at positions 2 through 12 of its
\* argument grouped 5-4-2 with hyphens, returns nothing when fewer than 11
\* characters are there from position 2 on, and so gives the same string
\* whenever it is applied to the same GTIN.
C21_NdcIsFiveFourTwo ==
  Derived =>
    (result = IF Len(input) >= 13 THEN Some(FiveFourTwo(input)) ELSE Undefined)

C21_Witness ==
  /\ Derived /\ input = GtinGood
  /\ result = Some(Ds(<<0, 3, 6, 1, 4>>) \o <<"-">> \o Ds(<<1, 4, 5, 6>>) \o <<"-">> \o Ds(<<7, 8>>))

-----------------------------------------------------------------------------
(* Properties of the raw tokenizer *)

\* The codes of the rule table that are a prefix of s, and the longest.
PrefixCodes(s) == {k \in AIKeySet : StartsWith(s, k)}

LongestPrefixCode(s) ==
  CHOOSE k \in PrefixCodes(s) : \A o \in PrefixCodes(s) : Len(o) <= Len(k)

\* A raw iteration on a non-empty stream, and one that stays in the loop.
RawIteration == pc = "raw" /\ stream # <<>>

RawExtraction == RawIteration /\ pc' = "raw"

\* C22: at every step of the raw tokenizer the AI selected is the longest
\* code of the rule table that is a prefix of the remaining stream: the
\* element a step records is under that code and holds the characters that
\* follow it, and a step records nothing only when no code is a prefix or
\* the longest one has no value to take.
C22_LongestPrefixSelected ==
  [][ RawIteration =>
        IF pc' = "raw"
        THEN /\ PrefixCodes(stream) # {}
             /\ DOMAIN elements' = DOMAIN elements \cup {LongestPrefixCode(stream)}
             /\ StartsWith(stream, LongestPrefixCode(stream)
                                     \o elements'[LongestPrefixCode(stream)].rawValue)
        ELSE /\ elements' = elements
             /\ IF PrefixCodes(stream) = {} THEN TRUE
                ELSE Extract(stream, LongestPrefixCode(stream)).value = <<>> ]_vars

C22_Witness ==
  /\ pc = "raw" /\ iters = 1
  /\ DOMAIN elements = {Ds(<<7, 0, 0, 3>>)}
  /\ Len(rawData) - Len(stream) = 14

\* No code prefixes s, or the code that does is fixed-length and s has
\* fewer value characters than the rule asks for.
Unparseable(s) ==
  IF PrefixCodes(s) = {} THEN TRUE
  ELSE /\ AI_RULES[LongestPrefixCode(s)].fixedLength # 0
       /\ Len(s) < Len(LongestPrefixCode(s)) + AI_RULES[LongestPrefixCode(s)].fixedLength

\* 'Unparsed data segment: <first 10 characters of s>...'
UnparsedWarning(s) ==
  <<"Unparsed data segment: ", SubSeq(s, 1, Min(10, Len(s))), "...">>

\* C23: a raw iteration on a stream that no code prefixes, or whose
\* fixed-length code has too few characters left, appends exactly the
\* warning 'Unparsed data segment: <first 10 characters>...', records no
\* element and ends the tokenizing; the result returned then holds the
\* elements decoded before it and that warning list.
C23_UnparsedSegmentStops ==
  [][ /\ (RawIteration /\ Unparseable(stream)) =>
           /\ pc' = "final"
           /\ warnings' = Append(warnings, UnparsedWarning(stream))
           /\ elements' = elements
      /\ (pc = "final" /\ pc' = "done") =>
           /\ result'.elements = elements
           /\ result'.warnings = warnings ]_vars

C23_Witness ==
  /\ pc = "done" /\ path = "raw"
  /\ DOMAIN result.elements = {AI01}
  /\ result.warnings = << UnparsedWarning(<<"?", "?">>) >>
  /\ ~result.success

\* The code selected for s is variable-length, and the text after it.
VariableCode(s) ==
  /\ PrefixCodes(s) # {}
  /\ AI_RULES[LongestPrefixCode(s)].fixedLength = 0
  /\ AI_RULES[LongestPrefixCode(s)].maxLength # 0

TextAfterCode(s) == SubSeq(s, Len(LongestPrefixCode(s)) + 1, Len(s))

HasSeparator(s) == \E i \in 1..Len(s) : s[i] = GS

FirstSeparator(s) == CHOOSE i \in 1..Len(s) : s[i] = GS /\ \A j \in 1..(i - 1) : s[j] # GS

BeforeFirstSeparator(s) == SubSeq(s, 1, FirstSeparator(s) - 1)

AfterFirstSeparator(s) == SubSeq(s, FirstSeparator(s) + 1, Len(s))

\* The step recorded value v under the selected code and went on with next.
Extracted(v, next) ==
  /\ pc' = "raw"
  /\ elements'[LongestPrefixCode(stream)].rawValue = v
  /\ stream' = next

\* C24: for a variable-length AI in the raw tokenizer whose text after the
\* code holds a group separator, the value is the text before the first
\* separator and the next stream is the text after that first separator,
\* later separators kept in place; the step records them whenever the value
\* is not empty.
C24_SplitAtFirstSeparator ==
  [][ (RawIteration /\ VariableCode(stream) /\ HasSeparator(TextAfterCode(stream))) =>
        /\ Extract(stream, LongestPrefixCode(stream)) =
             [value |-> BeforeFirstSeparator(TextAfterCode(stream)),
              nextStream |-> AfterFirstSeparator(TextAfterCode(stream))]
        /\ BeforeFirstSeparator(TextAfterCode(stream)) # <<>> =>
             Extracted(BeforeFirstSeparator(TextAfterCode(stream)),
                       AfterFirstSeparator(TextAfterCode(stream))) ]_vars

C24_Witness ==
  /\ pc = "raw" /\ iters = 1
  /\ DOMAIN elements = {AI10}
  /\ elements[AI10].rawValue = <<"L">>
  /\ stream = AI21 \o <<"S", GS>> \o AI17 \o Date251231

MaxLenOf(s) == AI_RULES[LongestPrefixCode(s)].maxLength

\* C25: for a variable-length AI in the raw tokenizer with no group
\* separator after the code, the value is the first maxLen characters and
\* the tokenizing goes on with the characters after them when the text is
\* longer than maxLen, and the whole text with an empty next stream when it
\* is not; the step records them whenever the value is not empty.
C25_CutAtMaxLength ==
  [][ (RawIteration /\ VariableCode(stream) /\ ~HasSeparator(TextAfterCode(stream))) =>
        IF Len(TextAfterCode(stream)) > MaxLenOf(stream)
        THEN Extracted(SubSeq(TextAfterCode(stream), 1, MaxLenOf(stream)),
                       SubSeq(TextAfterCode(stream), MaxLenOf(stream) + 1,
                              Len(TextAfterCode(stream))))
        ELSE /\ Extract(stream, LongestPrefixCode(stream)) =
                  [value |-> TextAfterCode(stream), nextStream |-> <<>>]
             /\ TextAfterCode(stream) # <<>> => Extracted(TextAfterCode(stream), <<>>) ]_vars

C25_Witness ==
  /\ pc = "raw" /\ iters = 1
  /\ DOMAIN elements = {AI10}
  /\ elements[AI10].rawValue = Str(20, "B")
  /\ stream = AI21 \o <<"S">>

\* Every warning about a check digit or a date belongs to an element of the
\* result that is marked invalid.
WarningsBelongToElements ==
  \A i \in DOMAIN result.warnings :
    /\ result.warnings[i] = WarnGTIN =>
         (Has(result.elements, AI01) /\ ~result.elements[AI01].isValid)
    /\ \A ai \in AIKeySet :
         result.warnings[i] = WarnDate(ai) =>
           (Has(result.elements, ai) /\ ~result.elements[ai].isValid)

\* C26: when an AI occurs more than once, elements holds the one entry built
\* from the last occurrence and the repetition leaves no trace: the result
\* carries no warning that comes from an earlier, overwritten occurrence.
C26_RepetitionIsSilent ==
  CompositeReturn => WarningsBelongToElements

-----------------------------------------------------------------------------
(* Properties of processAI within the tokenizer *)

\* A step of either tokenizer loop that called processAI and came back.
TokenStep == (pc = "raw" /\ pc' = "raw") \/ (pc = "bracket" /\ pc' = "bracket")

\* The AI and the value that step handed to processAI.
ProcessedAI ==
  IF pc = "raw" THEN LongestPrefixCode(stream) ELSE BracketExec(stream, lastIndex).ai

ProcessedValue ==
  IF pc = "raw" THEN Extract(stream, LongestPrefixCode(stream)).value
  ELSE BracketExec(stream, lastIndex).value

\* v starts with six digits YYMMDD that name a calendar day, DD = 00 standing
\* for the last day of the month; and the ISO date of those digits.
DecodableDate(v) ==
  /\ Len(v) >= 6 /\ AllDigits(SubSeq(v, 1, 6))
  /\ FieldMM(v) \in 1..12
  /\ FieldDD(v) \in 0..DaysInMonth(PivotYear(FieldYY(v)), FieldMM(v))

IsoOfDigits(v) ==
  IsoOf(PivotYear(FieldYY(v)), FieldMM(v),
        IF FieldDD(v) = 0 THEN DaysInMonth(PivotYear(FieldYY(v)), FieldMM(v))
        ELSE FieldDD(v))

\* The element stored under k after the step, for the value v handed over.
StoredDate(k, v) ==
  /\ elements'[k].value = IsoOfDigits(v)
  /\ elements'[k].rawValue = v
  /\ elements'[k].isValid

StoredAsIs(k, v) ==
  /\ elements'[k].value = v
  /\ elements'[k].rawValue = v
  /\ elements'[k].isValid
  /\ warnings' = warnings

StoredBy(k, v) ==
  /\ k \in DOMAIN elements'
  /\ (AI_RULES[k].type = "date" /\ DecodableDate(v)) => StoredDate(k, v)
  /\ (AI_RULES[k].type # "date" /\ k # AI01) => StoredAsIs(k, v)

\* C27: a date-typed AI whose value decodes is stored with value = the ISO
\* date, rawValue = the digits as extracted and isValid = true; an AI that is
\* neither 01 nor date-typed is stored with value = rawValue as extracted and
\* isValid = true, and no warning is added.
C27_StoredElement ==
  [][ TokenStep => StoredBy(ProcessedAI, ProcessedValue) ]_vars

C27_Witness ==
  /\ pc = "raw" /\ DOMAIN elements = {AI01, AI17}
  /\ elements[AI17].rawValue = Ds(<<2, 5, 0, 2, 0, 0>>)
  /\ elements[AI17].value = IsoOf(2025, 2, 28)
  /\ elements[AI17].isValid

-----------------------------------------------------------------------------
(* Properties of the returned result, continued *)

\* The warning processAI records with an element it marks invalid.
WarningFor(ai) == IF ai = AI01 THEN WarnGTIN ELSE WarnDate(ai)

\* C28: in every returned result success = true implies that every element
\* has isValid = true, because every element marked invalid comes with its
\* warning in the same result.
C28_SuccessMeansAllValid ==
  Returns =>
    /\ \A ai \in DOMAIN result.elements :
         ~result.elements[ai].isValid => Warned(WarningFor(ai))
    /\ result.success => \A ai \in DOMAIN result.elements : result.elements[ai].isValid

C28_Witness ==
  /\ CompositeReturn /\ result.success
  /\ DOMAIN result.elements = {AI01, AI17, AI10}
  /\ \A ai \in DOMAIN result.elements : result.elements[ai].isValid

-----------------------------------------------------------------------------
(* The raw tokenizer loses no character *)

IsSuffix(t, s) == Len(t) <= Len(s) /\ t = SubSeq(s, Len(s) - Len(t) + 1, Len(s))

\* s is code k, value v and the stream next, with at most one group
\* separator between v and next.
Partitions(s, k, v, next) ==
  \/ s = k \o v \o next
  \/ s = k \o v \o <<GS>> \o next

\* C29: every extraction step of the raw tokenizer splits the stream into
\* AI code + value + next stream with at most one group separator between
\* value and next stream, so the stream is always what is left of the
\* normalised input, and a raw decode that ends with no warning has consumed
\* all of it.
C29_StreamIsPartitioned ==
  [][ /\ RawExtraction =>
           Partitions(stream, LongestPrefixCode(stream),
                      elements'[LongestPrefixCode(stream)].rawValue, stream')
      /\ pc' = "raw" => IsSuffix(stream', rawData')
      /\ (pc = "raw" /\ pc' = "final" /\ warnings' = <<>>) => stream = <<>> ]_vars

C29_Witness ==
  /\ pc = "final" /\ path = "raw" /\ iters = 3
  /\ stream = <<>> /\ warnings = <<>>
  /\ \E i \in 1..Len(rawData) : rawData[i] = GS

-----------------------------------------------------------------------------
(* Properties of parseGS1Date called directly, continued *)

\* The calendar year, month and day of month of day number n.
YearOfDay(n) == CHOOSE y \in 1969..2110 : DaysToYear(y) <= n /\ n < DaysToYear(y + 1)

MonthOfDay(n) ==
  CHOOSE m \in 1..12 :
    /\ DaysBeforeMonth(YearOfDay(n), m) <= n - DaysToYear(YearOfDay(n))
    /\ n - DaysToYear(YearOfDay(n)) < DaysBeforeMonth(YearOfDay(n), m)
                                         + DaysInMonth(YearOfDay(n), m)

DateOfDay(n) == n - DaysToYear(YearOfDay(n)) - DaysBeforeMonth(YearOfDay(n), MonthOfDay(n)) + 1

\* C30: for every argument of at least six digits the record parseGS1Date
\* returns is self-consistent: the year, month and day written in its ISO
\* string are those of its date object, also when the month is 00 or above
\* 12 or the day is past the end of the month and the date rolls over.
C30_IsoMatchesDateObject ==
  (Dated /\ Len(input) >= 6 /\ AllDigits(input)) =>
    /\ result # Null
    /\ result[1].dateObj.valid
    /\ result[1].iso = IsoOf(YearOfDay(result[1].dateObj.day),
                             MonthOfDay(result[1].dateObj.day),
                             DateOfDay(result[1].dateObj.day))

=============================================================================
